---- MODULE Spec2Model ----
(***************************************************************************)
(* PodcastsTUI: the foreground loop (run_app / ui), the application state  *)
(* (App), the two mpsc queues and the background worker                    *)
(* (handle_user_input in main.rs, handle_background_request in data).      *)
(*                                                                         *)
(* Strings are sequences of one-character strings.  Option<T> is a         *)
(* sequence of length 0 (None) or 1 (Some).  Vec indices are 0-based as in *)
(* the source; sequences are 1-based, so items.get(i) reads items[i + 1].  *)
(***************************************************************************)
EXTENDS Integers, Sequences, FiniteSets, TLC

VARIABLES
    input,            \* App.input
    channel,          \* App.channel : Option<Channel>
    item,             \* App.item : Option<Item>
    selected,         \* App.state.selected() : Option<usize>
    display_action,   \* App.display_action
    data_q,           \* mpsc channel UI -> data thread (data_tx / data_rx)
    ui_q,             \* mpsc channel data thread -> UI (ui_tx / ui_rx)
    fg_pc,            \* position of the main thread
    result,           \* how run_app was left
    w_pc,             \* position of the data thread
    w_url,            \* the Url the data thread is fetching
    overflow_checks,  \* build profile: usize arithmetic panics on overflow or wraps
    line,             \* the &str handed to ui::input::parse
    command,          \* the Command parse returned : Option<Command>
    last_op,          \* history: the step taken last
    msg,              \* history: the text the last submit in Input drained
    sent,             \* history: number of Requests sent on data_tx
    consumed,         \* history: number of Requests the worker took from data_rx
    published,        \* history: number of Responses the worker put on ui_tx
    failed            \* history: number of get_feed calls that returned Err

app == <<input, channel, item, selected, display_action>>
queues == <<data_q, ui_q>>
worker == <<w_pc, w_url>>
parser == <<line, command>>
history == <<msg, sent, consumed, published, failed>>
vars == <<input, channel, item, selected, display_action, data_q, ui_q, fg_pc,
          result, w_pc, w_url, overflow_checks, line, command, last_op, msg,
          sent, consumed, published, failed>>

----------------------------------------------------------------------------
(* Bounds of the model *)

\* Requests the foreground may send in one run.
MaxRequests == 3
\* Longest episode list a fetched channel carries.
MaxEpisodes == 2
\* Furthest the cursor is moved, up or down, off an empty episode list.
MaxCursor == 3
\* Longest line handed to parse, in pieces.
MaxPieces == 5

----------------------------------------------------------------------------
(* Values *)

None == <<>>
Some(x) == <<x>>
IsSome(o) == o # <<>>
Unwrap(o) == o[1]

\* rss::Item values are episode records, told apart by a number 1 .. MaxEpisodes.
\* rss::Channel values a fetch can decode: the episode lists 1..n and n..1.
Ascending(n) == [i \in 1 .. n |-> i]
Descending(n) == [i \in 1 .. n |-> n + 1 - i]
Channels ==
    {[items |-> Ascending(n)] : n \in 0 .. MaxEpisodes}
        \cup {[items |-> Descending(n)] : n \in 0 .. MaxEpisodes}

FeedRequest(u) == [type |-> "Feed", url |-> u]
EpisodeRequest(e) == [type |-> "Episode", item |-> e]
FeedResponse(c) == [type |-> "Feed", channel |-> c]
EpisodeResponse(i) == [type |-> "Episode", item |-> i]

\* The lines the user types: every prefix of one of them can be in the buffer.
UrlLine == <<"h", "t", "t", "p", ":", "/", "/", "a">>
LoadLine == <<"/", "l", "o", "a", "d", " ">> \o UrlLine
TypedLines == {UrlLine, LoadLine}
TypedPrefixes == UNION {{SubSeq(l, 1, n) : n \in 0 .. Len(l)} : l \in TypedLines}
Chars == UNION {{l[i] : i \in 1 .. Len(l)} : l \in TypedLines}

----------------------------------------------------------------------------
(* url::Url::parse, on texts over the characters of the model (the letters *)
(* of AlphaChars, "+", "-", ".", ":", "/" and the space): leading and      *)
(* trailing spaces are trimmed; a scheme (a letter, then letters, "+",     *)
(* "-", ".") followed by ":" is required.  For the special scheme http any *)
(* run of slashes after the colon is skipped and a host is required; for   *)
(* another scheme "//" starts an authority, whose host may be empty, "/"   *)
(* starts a path, and anything else is an opaque path, kept as it is.  The *)
(* host runs to the next ":" or "/" and has no space; an empty port is     *)
(* dropped.  A path loses its "." and ".." segments (a ".." keeps a drive  *)
(* letter segment, a letter and ":", before it), its spaces are            *)
(* percent-encoded, and the empty path of a special scheme becomes "/".    *)
(* A path without a host that would start with "//" is written behind     *)
(* "/.".  The value is the serialization of the parsed Url.                *)

AlphaChars == {"a", "d", "h", "l", "o", "p", "t"}
SchemeChars == AlphaChars \cup {"+", "-", "."}
SpecialSchemes == {<<"h", "t", "t", "p">>}

RECURSIVE TrimStart(_)
TrimStart(s) == IF s # <<>> /\ Head(s) = " " THEN TrimStart(Tail(s)) ELSE s

RECURSIVE TrimEnd(_)
TrimEnd(s) ==
    IF s # <<>> /\ s[Len(s)] = " " THEN TrimEnd(SubSeq(s, 1, Len(s) - 1)) ELSE s

RECURSIVE SchemeEnd(_, _)
SchemeEnd(s, i) ==
    IF i <= Len(s) /\ s[i] \in SchemeChars THEN SchemeEnd(s, i + 1) ELSE i

RECURSIVE SkipSlashes(_)
SkipSlashes(s) == IF s # <<>> /\ Head(s) = "/" THEN SkipSlashes(Tail(s)) ELSE s

RECURSIVE HostEnd(_, _)
HostEnd(s, i) == IF i <= Len(s) /\ s[i] # "/" THEN HostEnd(s, i + 1) ELSE i

RECURSIVE PercentEncode(_)
PercentEncode(s) ==
    IF s = <<>> THEN <<>>
    ELSE (IF Head(s) = " " THEN <<"%", "2", "0">> ELSE <<Head(s)>>)
             \o PercentEncode(Tail(s))

UrlErr == [ok |-> FALSE, url |-> <<>>]
UrlOk(u) == [ok |-> TRUE, url |-> u]

\* The first index of character c in s at or after i, or Len(s) + 1.
RECURSIVE IndexOf(_, _, _)
IndexOf(s, c, i) == IF i <= Len(s) /\ s[i] # c THEN IndexOf(s, c, i + 1) ELSE i

\* The segments of a path: the pieces after each "/".
RECURSIVE PathSegments(_)
PathSegments(p) ==
    IF p = <<>> THEN <<>>
    ELSE LET r == Tail(p)
             i == IndexOf(r, "/", 1)
         IN  <<SubSeq(r, 1, i - 1)>> \o PathSegments(SubSeq(r, i, Len(r)))

\* What the crate takes for a Windows drive letter: a letter and ":" (its
\* other form, a letter and "|", is not over the model's characters).
IsDriveLetter(seg) == Len(seg) = 2 /\ seg[1] \in AlphaChars /\ seg[2] = ":"

\* The path's segments without "." and "..": ".." removes the segment before
\* it unless that is a drive letter, whatever the scheme, and either of them
\* as the last segment leaves an empty one.
RECURSIVE Normalised(_, _)
Normalised(segs, acc) ==
    IF segs = <<>> THEN acc
    ELSE LET seg == Head(segs)
             last == Len(segs) = 1
             kept == IF /\ seg = <<".", ".">> /\ acc # <<>>
                        /\ ~IsDriveLetter(acc[Len(acc)])
                     THEN SubSeq(acc, 1, Len(acc) - 1)
                     ELSE acc
         IN  Normalised(Tail(segs),
                        IF seg \in {<<".">>, <<".", ".">>}
                        THEN (IF last THEN Append(kept, <<>>) ELSE kept)
                        ELSE Append(acc, seg))

RECURSIVE JoinPath(_)
JoinPath(segs) ==
    IF segs = <<>> THEN <<>>
    ELSE <<"/">> \o PercentEncode(Head(segs)) \o JoinPath(Tail(segs))

\* The serialization of a path that starts with "/".
UrlPath(p) == JoinPath(Normalised(PathSegments(p), <<>>))

\* scheme://authority path: the authority is host or host:port; an empty port
\* is dropped, a port that is no number is an error (the model has no digits);
\* an empty host is an error for a special scheme, and with a ":" for any.
UrlWithAuthority(scheme, r, special) ==
    LET h == HostEnd(r, 1)
        auth == SubSeq(r, 1, h - 1)
        c == IndexOf(auth, ":", 1)
        host == SubSeq(auth, 1, c - 1)
        port == SubSeq(auth, c + 1, Len(auth))
        path == SubSeq(r, h, Len(r))
    IN  IF \/ host = <<>> /\ (special \/ c <= Len(auth))
           \/ port # <<>>
           \/ \E i \in 1 .. Len(host) : host[i] = " "
        THEN UrlErr
        ELSE UrlOk(scheme \o <<":", "/", "/">> \o host
                     \o (IF path = <<>> THEN (IF special THEN <<"/">> ELSE <<>>)
                         ELSE UrlPath(path)))

UrlParse(raw) ==
    LET s == TrimEnd(TrimStart(raw))
        e == SchemeEnd(s, 1)
    IN  IF s = <<>> \/ Head(s) \notin AlphaChars \/ e > Len(s) \/ s[e] # ":"
        THEN UrlErr
        ELSE LET scheme == SubSeq(s, 1, e - 1)
                 rest == SubSeq(s, e + 1, Len(s))
             IN  IF scheme \in SpecialSchemes
                 THEN UrlWithAuthority(scheme, SkipSlashes(rest), TRUE)
                 ELSE IF Len(rest) >= 2 /\ SubSeq(rest, 1, 2) = <<"/", "/">>
                 THEN UrlWithAuthority(scheme, SubSeq(rest, 3, Len(rest)), FALSE)
                 ELSE IF rest # <<>> /\ Head(rest) = "/"
                 THEN UrlOk(scheme \o <<":">>
                              \o (IF Len(UrlPath(rest)) >= 2 /\ UrlPath(rest)[2] = "/"
                                  THEN <<"/", ".">> ELSE <<>>)
                              \o UrlPath(rest))
                 ELSE UrlOk(s)

----------------------------------------------------------------------------
(* ui::input: Command and parse *)

NoOp == [op |-> "NoOp", url |-> <<>>]
FetchPodcastFeed(u) == [op |-> "FetchPodcastFeed", url |-> u]

LoadOp == <<"/", "l", "o", "a", "d">>

\* The &str values handed to parse: up to MaxPieces of these pieces in a row.
Pieces == {LoadOp, <<" ">>, <<"a">>, UrlLine}

RECURSIVE LinesOf(_)
LinesOf(n) ==
    IF n = 0 THEN {<<>>}
    ELSE LinesOf(n - 1) \cup {l \o q : l \in LinesOf(n - 1), q \in Pieces}

ParseLines == LinesOf(MaxPieces)

Split_Whitespace(s) ==
    LET RECURSIVE Go(_)
        Go(t) ==
            LET u == TrimStart(t)
                i == IndexOf(u, " ", 1)
            IN  IF u = <<>> THEN <<>>
                ELSE <<SubSeq(u, 1, i - 1)>> \o Go(SubSeq(u, i + 1, Len(u)))
    IN  Go(s)

\* s.split(" "): the pieces between single spaces, empty pieces included; the
\* empty string gives one empty piece.
RECURSIVE Split(_)
Split(s) ==
    LET i == IndexOf(s, " ", 1)
    IN  IF i > Len(s) THEN <<s>>
        ELSE <<SubSeq(s, 1, i - 1)>> \o Split(SubSeq(s, i + 1, Len(s)))

RECURSIVE Join_WithSpaces(_)
Join_WithSpaces(ts) ==
    IF ts = <<>> THEN <<>>
    ELSE IF Len(ts) = 1 THEN Head(ts)
    ELSE Head(ts) \o <<" ">> \o Join_WithSpaces(Tail(ts))

\* args.join("")
RECURSIVE Join(_)
Join(ts) == IF ts = <<>> THEN <<>> ELSE Head(ts) \o Join(Tail(ts))

parse(s) ==
    LET parts == Split(s)
    IN  IF parts = <<>> THEN NoOp
        ELSE IF Head(parts) = LoadOp THEN FetchPodcastFeed(Join(Tail(parts)))
        ELSE NoOp

----------------------------------------------------------------------------
(* App *)

\* A usize is written as an integer: n >= 0 is n, and -k, k > 0, is the wrapped
\* value 2^64 - k (-1 is usize::MAX).  The cursor never comes near 2^63, so
\* + 1 and - 1 on this writing are the machine's wrapping + 1 and - 1.

\* a >= b on usize.
UsizeGeq(a, b) ==
    IF (a < 0) = (b < 0) THEN a >= b ELSE a < 0

\* c.items().len() - 1 on usize: wraps to usize::MAX when the list is empty.
LenMinusOne(items) == Len(items) - 1

NextIndex_StopsAtEnd(ch, sel) ==
    IF IsSome(ch) /\ IsSome(sel)
    THEN IF UsizeGeq(Unwrap(sel), LenMinusOne(Unwrap(ch).items)) THEN Unwrap(sel)
         ELSE Unwrap(sel) + 1
    ELSE 0

\* The index App::next selects.
NextIndex(ch, sel) ==
    IF IsSome(ch) /\ IsSome(sel)
    THEN IF UsizeGeq(Unwrap(sel), LenMinusOne(Unwrap(ch).items)) THEN 0
         ELSE Unwrap(sel) + 1
    ELSE 0

PreviousIndex_OffByOne(ch, sel) ==
    IF IsSome(ch) /\ IsSome(sel)
    THEN IF Unwrap(sel) = 0 THEN Len(Unwrap(ch).items)
         ELSE Unwrap(sel) - 1
    ELSE 0

\* The index App::previous selects.
PreviousIndex(ch, sel) ==
    IF IsSome(ch) /\ IsSome(sel)
    THEN IF Unwrap(sel) = 0 THEN LenMinusOne(Unwrap(ch).items)
         ELSE Unwrap(sel) - 1
    ELSE 0

\* The cursor is on an episode of the list, or within MaxCursor of index 0.
CursorWithinBound(ch, idx) ==
    \/ idx \in -MaxCursor .. MaxCursor
    \/ IsSome(ch) /\ 0 <= idx /\ idx < Len(Unwrap(ch).items)

\* Whether App::next evaluates items.len() - 1 on an empty list.
NextUnderflows(ch, sel) ==
    IsSome(ch) /\ IsSome(sel) /\ Len(Unwrap(ch).items) = 0

\* Whether App::previous evaluates items.len() - 1 on an empty list.
PreviousUnderflows(ch, sel) ==
    IsSome(ch) /\ IsSome(sel) /\ Unwrap(sel) = 0 /\ Len(Unwrap(ch).items) = 0

SelectedItem_Last(ch, sel) ==
    IF /\ IsSome(ch) /\ IsSome(sel)
       /\ 0 <= Unwrap(sel) /\ Unwrap(sel) < Len(Unwrap(ch).items)
    THEN Some(Unwrap(ch).items[Len(Unwrap(ch).items)])
    ELSE None

\* The episode a submit in ListEpisodes picks: items.get(idx).cloned().
SelectedItem(ch, sel) ==
    IF /\ IsSome(ch) /\ IsSome(sel)
       /\ 0 <= Unwrap(sel) /\ Unwrap(sel) < Len(Unwrap(ch).items)
    THEN Some(Unwrap(ch).items[Unwrap(sel) + 1])
    ELSE None

----------------------------------------------------------------------------
(* Initial state: App::default(), two empty channels, both threads started *)

Started ==
    /\ input = <<>>
    /\ channel = None
    /\ item = None
    /\ selected = None
    /\ display_action = "Input"
    /\ data_q = <<>>
    /\ ui_q = <<>>
    /\ fg_pc = "setup"
    /\ result = "running"
    /\ w_pc = "idle"
    /\ w_url = <<>>
    /\ overflow_checks \in BOOLEAN
    /\ last_op = "init"
    /\ msg = <<>>
    /\ sent = 0
    /\ consumed = 0
    /\ published = 0
    /\ failed = 0

\* The program as main starts it: ui::input::parse is not called.
Init ==
    /\ Started
    /\ line = <<>>
    /\ command = None

----------------------------------------------------------------------------
(* Main thread: run_app, one iteration = ui (inside terminal.draw), then   *)
(* event::read, which blocks until the terminal delivers an event.         *)

\* enable_raw_mode()?, execute!(..)?, Terminal::new(backend)?: the terminal is
\* set up and run_app is called.
SetupTerminal ==
    /\ fg_pc = "setup"
    /\ fg_pc' = "draw"
    /\ last_op' = "setup"
    /\ UNCHANGED <<app, queues, result, worker, overflow_checks, parser, history>>

\* One of them fails: main returns the Err.
SetupErr ==
    /\ fg_pc = "setup"
    /\ fg_pc' = "returned"
    /\ result' = "Err"
    /\ last_op' = "setup_err"
    /\ UNCHANGED <<app, queues, worker, overflow_checks, parser, history>>

\* terminal.draw(..)? fails: run_app returns the Err.  The failure is before
\* the closure ui is called (the resize) or after it (the flush), so the
\* Response of this draw is applied or is not.
DrawErr ==
    /\ fg_pc = "draw"
    /\ fg_pc' = "returned"
    /\ result' = "Err"
    /\ last_op' = "draw_err"
    /\ \/ UNCHANGED <<ui_q, channel, item>>
       \/ /\ ui_q # <<>>
          /\ ui_q' = Tail(ui_q)
          /\ IF Head(ui_q).type = "Feed"
             THEN channel' = Some(Head(ui_q).channel) /\ item' = item
             ELSE item' = Some(Head(ui_q).item) /\ channel' = channel
    /\ UNCHANGED <<input, selected, display_action, data_q, worker,
                   overflow_checks, parser, history>>

\* event::read()? fails: run_app returns the Err.
ReadErr ==
    /\ fg_pc = "read"
    /\ fg_pc' = "returned"
    /\ result' = "Err"
    /\ last_op' = "read_err"
    /\ UNCHANGED <<app, queues, worker, overflow_checks, parser, history>>

Ui_FeedSelectsFirst ==
    /\ fg_pc = "draw"
    /\ fg_pc' = "read"
    /\ IF ui_q # <<>>
       THEN /\ ui_q' = Tail(ui_q)
            /\ IF Head(ui_q).type = "Feed"
               THEN /\ channel' = Some(Head(ui_q).channel)
                    /\ item' = item
                    /\ selected' = Some(0)
                    /\ last_op' = "ui_feed"
               ELSE /\ item' = Some(Head(ui_q).item)
                    /\ channel' = channel
                    /\ selected' = selected
                    /\ last_op' = "ui_episode"
       ELSE /\ UNCHANGED <<ui_q, channel, item, selected>>
            /\ last_op' = "ui_none"
    /\ UNCHANGED <<input, display_action, data_q, result, worker,
                   overflow_checks, parser, history>>

\* ui: rx.try_recv() takes at most one Response and stores its payload.
Ui ==
    /\ fg_pc = "draw"
    /\ fg_pc' = "read"
    /\ IF ui_q # <<>>
       THEN /\ ui_q' = Tail(ui_q)
            /\ IF Head(ui_q).type = "Feed"
               THEN /\ channel' = Some(Head(ui_q).channel)
                    /\ item' = item
                    /\ last_op' = "ui_feed"
               ELSE /\ item' = Some(Head(ui_q).item)
                    /\ channel' = channel
                    /\ last_op' = "ui_episode"
       ELSE /\ UNCHANGED <<ui_q, channel, item>>
            /\ last_op' = "ui_none"
    /\ UNCHANGED <<input, selected, display_action, data_q, result, worker,
                   overflow_checks, parser, history>>

\* KeyCode::Esc => return Ok(())
KeyEsc ==
    /\ fg_pc = "read"
    /\ fg_pc' = "returned"
    /\ result' = "Ok"
    /\ last_op' = "key_esc"
    /\ UNCHANGED <<app, queues, worker, overflow_checks, parser, history>>

\* KeyCode::Enter in DisplayAction::Input: the buffer is drained, and sent as
\* Request::Feed when it parses as a Url.
SubmitInput ==
    LET u == UrlParse(input)
    IN  /\ msg' = input
        /\ input' = <<>>
        /\ IF u.ok
           THEN /\ data_q' = Append(data_q, FeedRequest(u.url))
                /\ sent' = sent + 1
                /\ display_action' = "ListEpisodes"
           ELSE UNCHANGED <<data_q, sent, display_action>>
        /\ UNCHANGED <<channel, item, selected>>

\* KeyCode::Enter in DisplayAction::ListEpisodes: Request::Episode(item) is
\* sent whether or not an item is selected.
SubmitEpisode_AlwaysAdvances ==
    LET it == SelectedItem(channel, selected)
    IN  /\ display_action' = "DescribeEpisode"
        /\ data_q' = Append(data_q, EpisodeRequest(it))
        /\ sent' = sent + 1
        /\ UNCHANGED <<input, channel, item, selected, msg>>

SubmitEpisode_StaysInList ==
    LET it == SelectedItem(channel, selected)
    IN  /\ display_action' = display_action
        /\ data_q' = Append(data_q, EpisodeRequest(it))
        /\ sent' = sent + 1
        /\ UNCHANGED <<input, channel, item, selected, msg>>

SubmitEpisode_SendsFirst ==
    LET it == SelectedItem(channel, Some(0))
    IN  /\ display_action' = IF IsSome(it) THEN "DescribeEpisode" ELSE display_action
        /\ data_q' = Append(data_q, EpisodeRequest(it))
        /\ sent' = sent + 1
        /\ UNCHANGED <<input, channel, item, selected, msg>>

\* KeyCode::Enter in DisplayAction::ListEpisodes: the episode under the cursor,
\* or None, is sent as Request::Episode.
SubmitEpisode ==
    LET it == SelectedItem(channel, selected)
    IN  /\ display_action' = IF IsSome(it) THEN "DescribeEpisode" ELSE display_action
        /\ data_q' = Append(data_q, EpisodeRequest(it))
        /\ sent' = sent + 1
        /\ UNCHANGED <<input, channel, item, selected, msg>>

\* KeyCode::Enter in DisplayAction::DescribeEpisode: only a trace event.
SubmitDescribe_GoesBack ==
    /\ display_action' = "ListEpisodes"
    /\ UNCHANGED <<input, channel, item, selected, data_q, sent, msg>>

SubmitDescribe_BackToInput ==
    /\ display_action' = "Input"
    /\ UNCHANGED <<input, channel, item, selected, data_q, sent, msg>>

SubmitDescribe ==
    UNCHANGED <<app, data_q, sent, msg>>

KeyEnter ==
    /\ fg_pc = "read"
    /\ display_action = "DescribeEpisode" \/ sent < MaxRequests
    /\ fg_pc' = "draw"
    /\ last_op' = "key_enter"
    /\ CASE display_action = "Input" -> SubmitInput
         [] display_action = "ListEpisodes" -> SubmitEpisode
         [] display_action = "DescribeEpisode" -> SubmitDescribe
    /\ UNCHANGED <<ui_q, result, worker, overflow_checks, parser, consumed, published,
                   failed>>

\* KeyCode::Char(c) => app.input.push(c)
KeyChar ==
    /\ fg_pc = "read"
    /\ \E c \in Chars :
          /\ Append(input, c) \in TypedPrefixes
          /\ input' = Append(input, c)
    /\ fg_pc' = "draw"
    /\ last_op' = "key_char"
    /\ UNCHANGED <<channel, item, selected, display_action, queues, result,
                   worker, overflow_checks, parser, history>>

\* KeyCode::Backspace => app.input.pop()
KeyBackspace ==
    /\ fg_pc = "read"
    /\ input' = IF input = <<>> THEN <<>> ELSE SubSeq(input, 1, Len(input) - 1)
    /\ fg_pc' = "draw"
    /\ last_op' = "key_backspace"
    /\ UNCHANGED <<channel, item, selected, display_action, queues, result,
                   worker, overflow_checks, parser, history>>

\* A cursor key whose index computation overflows: a panic with overflow checks
\* on, the wrapped index without them.
MoveCursor(underflows, idx, op) ==
    /\ fg_pc = "read"
    /\ IF underflows /\ overflow_checks
       THEN /\ fg_pc' = "returned"
            /\ result' = "panic"
            /\ selected' = selected
            /\ last_op' = "panic"
       ELSE /\ CursorWithinBound(channel, idx)
            /\ fg_pc' = "draw"
            /\ result' = result
            /\ selected' = Some(idx)
            /\ last_op' = op
    /\ UNCHANGED <<input, channel, item, display_action, queues, worker,
                   overflow_checks, parser, history>>

\* KeyCode::Up => app.previous()
KeyUp ==
    MoveCursor(PreviousUnderflows(channel, selected),
               PreviousIndex(channel, selected), "key_up")

\* KeyCode::Down => app.next()
KeyDown ==
    MoveCursor(NextUnderflows(channel, selected),
               NextIndex(channel, selected), "key_down")

\* Any other key, and any event that is not a key: the loop goes round.
KeyOther ==
    /\ fg_pc = "read"
    /\ fg_pc' = "draw"
    /\ last_op' = "key_other"
    /\ UNCHANGED <<app, queues, result, worker, overflow_checks, parser, history>>

\* main after run_app: its locals, ui_rx and data_tx among them, are dropped.
MainReturn ==
    /\ fg_pc = "returned"
    /\ fg_pc' = "dropped"
    /\ last_op' = "main_return"
    /\ UNCHANGED <<app, queues, result, worker, overflow_checks, parser, history>>

\* The process ends, and the data thread with it.
ProcessExit ==
    /\ fg_pc = "dropped"
    /\ fg_pc' = "exited"
    /\ last_op' = "exit"
    /\ UNCHANGED <<app, queues, result, worker, overflow_checks, parser, history>>

----------------------------------------------------------------------------
(* Data thread: loop { handle request; sleep }.  One cycle takes at most   *)
(* one Request with try_recv; a Feed request awaits get_feed.              *)

\* ui_rx exists until main drops it.
ReceiverAlive == fg_pc \in {"setup", "draw", "read", "returned"}

Send_Twice(r) ==
    IF ReceiverAlive
    THEN /\ ui_q' = Append(Append(ui_q, r), r)
         /\ published' = published + 2
    ELSE UNCHANGED <<ui_q, published>>

\* responder.send(r): queued while the receiver exists, an Err otherwise; the
\* caller goes on either way.
Send(r) ==
    IF ReceiverAlive
    THEN /\ ui_q' = Append(ui_q, r)
         /\ published' = published + 1
    ELSE UNCHANGED <<ui_q, published>>

\* try_recv() finds the inbound queue empty: the cycle does nothing.
WorkerIdle ==
    /\ fg_pc # "exited"
    /\ w_pc = "idle"
    /\ data_q = <<>>
    /\ last_op' = "w_empty"
    /\ UNCHANGED <<app, queues, fg_pc, result, worker, overflow_checks, parser, history>>

\* Request::Feed(u): get_feed(u) is called and awaited.
WorkerTakeFeed ==
    /\ fg_pc # "exited"
    /\ w_pc = "idle"
    /\ data_q # <<>>
    /\ Head(data_q).type = "Feed"
    /\ data_q' = Tail(data_q)
    /\ consumed' = consumed + 1
    /\ w_pc' = "fetching"
    /\ w_url' = Head(data_q).url
    /\ last_op' = "w_take_feed"
    /\ UNCHANGED <<app, ui_q, fg_pc, result, overflow_checks, parser, msg, sent, published,
                   failed>>

WorkerFetchOk_SetsChannel ==
    /\ fg_pc # "exited"
    /\ w_pc = "fetching"
    /\ \E c \in Channels : Send(FeedResponse(c)) /\ channel' = Some(c)
    /\ w_pc' = "idle"
    /\ w_url' = <<>>
    /\ last_op' = "w_fetch_ok"
    /\ UNCHANGED <<input, item, selected, display_action, data_q, fg_pc, result,
                   overflow_checks, parser, msg, sent, consumed, failed>>

WorkerFetchOk_StopsOnSendError ==
    /\ fg_pc # "exited"
    /\ w_pc = "fetching"
    /\ \E c \in Channels : Send(FeedResponse(c))
    /\ w_pc' = IF ReceiverAlive THEN "idle" ELSE "stopped"
    /\ w_url' = <<>>
    /\ last_op' = "w_fetch_ok"
    /\ UNCHANGED <<app, data_q, fg_pc, result, overflow_checks, parser, msg, sent, consumed,
                   failed>>

\* get_feed returned Ok(c): Response::Feed(c) is sent.
WorkerFetchOk ==
    /\ fg_pc # "exited"
    /\ w_pc = "fetching"
    /\ \E c \in Channels : Send(FeedResponse(c))
    /\ w_pc' = "idle"
    /\ w_url' = <<>>
    /\ last_op' = "w_fetch_ok"
    /\ UNCHANGED <<app, data_q, fg_pc, result, overflow_checks, parser, msg, sent, consumed,
                   failed>>

WorkerFetchErr_Retries ==
    /\ fg_pc # "exited"
    /\ w_pc = "fetching"
    /\ w_pc' = "idle"
    /\ w_url' = <<>>
    /\ failed' = failed + 1
    /\ data_q' = Append(data_q, FeedRequest(w_url))
    /\ last_op' = "w_fetch_err"
    /\ UNCHANGED <<app, ui_q, fg_pc, result, overflow_checks, parser, msg, sent, consumed,
                   published>>

WorkerFetchErr_SendsDefault ==
    /\ fg_pc # "exited"
    /\ w_pc = "fetching"
    /\ Send(FeedResponse([items |-> <<>>]))
    /\ w_pc' = "idle"
    /\ w_url' = <<>>
    /\ failed' = failed + 1
    /\ last_op' = "w_fetch_err"
    /\ UNCHANGED <<app, data_q, fg_pc, result, overflow_checks, parser, msg, sent,
                   consumed>>

\* get_feed returned Err: nothing is sent.
WorkerFetchErr ==
    /\ fg_pc # "exited"
    /\ w_pc = "fetching"
    /\ w_pc' = "idle"
    /\ w_url' = <<>>
    /\ failed' = failed + 1
    /\ last_op' = "w_fetch_err"
    /\ UNCHANGED <<app, queues, fg_pc, result, overflow_checks, parser, msg, sent, consumed,
                   published>>

WorkerEpisode_AlwaysReplies ==
    /\ fg_pc # "exited"
    /\ w_pc = "idle"
    /\ data_q # <<>>
    /\ Head(data_q).type = "Episode"
    /\ data_q' = Tail(data_q)
    /\ consumed' = consumed + 1
    /\ IF IsSome(Head(data_q).item)
       THEN /\ Send(EpisodeResponse(Unwrap(Head(data_q).item)))
            /\ last_op' = "w_episode_some"
       ELSE /\ Send(EpisodeResponse(1))
            /\ last_op' = "w_episode_none"
    /\ UNCHANGED <<app, fg_pc, result, worker, overflow_checks, parser, msg, sent, failed>>

WorkerEpisode_WhileFetching ==
    /\ fg_pc # "exited"
    /\ data_q # <<>>
    /\ Head(data_q).type = "Episode"
    /\ data_q' = Tail(data_q)
    /\ consumed' = consumed + 1
    /\ IF IsSome(Head(data_q).item)
       THEN /\ Send(EpisodeResponse(Unwrap(Head(data_q).item)))
            /\ last_op' = "w_episode_some"
       ELSE /\ UNCHANGED <<ui_q, published>>
            /\ last_op' = "w_episode_none"
    /\ UNCHANGED <<app, fg_pc, result, worker, overflow_checks, parser, msg, sent, failed>>

\* Request::Episode(e): Some(i) is sent back as Response::Episode(i), None is
\* dropped.
WorkerEpisode ==
    /\ fg_pc # "exited"
    /\ w_pc = "idle"
    /\ data_q # <<>>
    /\ Head(data_q).type = "Episode"
    /\ data_q' = Tail(data_q)
    /\ consumed' = consumed + 1
    /\ IF IsSome(Head(data_q).item)
       THEN /\ Send(EpisodeResponse(Unwrap(Head(data_q).item)))
            /\ last_op' = "w_episode_some"
       ELSE /\ UNCHANGED <<ui_q, published>>
            /\ last_op' = "w_episode_none"
    /\ UNCHANGED <<app, fg_pc, result, worker, overflow_checks, parser, msg, sent, failed>>

----------------------------------------------------------------------------

Foreground ==
    \/ SetupTerminal
    \/ SetupErr
    \/ Ui
    \/ DrawErr
    \/ ReadErr
    \/ KeyEsc
    \/ KeyEnter
    \/ KeyChar
    \/ KeyBackspace
    \/ KeyUp
    \/ KeyDown
    \/ KeyOther
    \/ MainReturn
    \/ ProcessExit

Worker ==
    \/ WorkerIdle
    \/ WorkerTakeFeed
    \/ WorkerFetchOk
    \/ WorkerFetchErr
    \/ WorkerEpisode

Next == Foreground \/ Worker

Spec == Init /\ [][Next]_vars

----------------------------------------------------------------------------
(* ui::input::parse and data::handle_user_input, as their callers use them: *)
(* a line is parsed, and the Command is handed on with a fresh App and an   *)
(* empty channel.                                                           *)

ParseInit ==
    /\ Started
    /\ line \in ParseLines
    /\ command = None

\* parse(line)
ParseLine ==
    /\ command = None
    /\ command' = Some(parse(line))
    /\ last_op' = "parse"
    /\ UNCHANGED <<app, queues, fg_pc, result, worker, overflow_checks, line,
                   history>>

\* data::handle_user_input(app, sender, command)
HandleUserInput ==
    /\ IsSome(command)
    /\ last_op = "parse"
    /\ last_op' = "handle_user_input"
    /\ IF Unwrap(command).op = "FetchPodcastFeed" /\ UrlParse(Unwrap(command).url).ok
       THEN /\ data_q' = Append(data_q, FeedRequest(UrlParse(Unwrap(command).url).url))
            /\ sent' = sent + 1
            /\ display_action' = "ListEpisodes"
       ELSE UNCHANGED <<data_q, sent, display_action>>
    /\ UNCHANGED <<input, channel, item, selected, ui_q, fg_pc, result, worker,
                   overflow_checks, parser, msg, consumed, published, failed>>

ParseNext == ParseLine \/ HandleUserInput

ParseSpec == ParseInit /\ [][ParseNext]_vars

\* The scheduler runs both threads; main's exit path runs by itself.  Key
\* events come from the terminal, and nothing makes the user press a key.
FairSpec ==
    /\ Spec
    /\ WF_vars(SetupTerminal \/ SetupErr)
    /\ WF_vars(Ui \/ DrawErr)
    /\ WF_vars(Worker)
    /\ WF_vars(MainReturn \/ ProcessExit)

----------------------------------------------------------------------------
(* Steps, recognised in a pair of states *)

Last(q) == q[Len(q)]

\* The main thread handles KeyCode::Enter.
EnterStep == fg_pc = "read" /\ last_op' = "key_enter"
\* The main thread runs ui.
UiStep == fg_pc = "draw" /\ fg_pc' = "read"
\* The worker takes a Request from the inbound queue.
TakeStep == consumed' = consumed + 1
\* The worker's get_feed call returns.
FetchReturnStep == w_pc = "fetching" /\ w_pc' = "idle"

----------------------------------------------------------------------------
(* C1 *)

\* Every consumed Request is answered, failed, or being fetched: never more
\* than one of these.
C1_Accounting ==
    published + failed + (IF w_pc = "fetching" THEN 1 ELSE 0) <= consumed

\* A step publishes at most one Response, and only as the success of a Request:
\* a fetch that returned a channel, or an Episode request carrying an episode.
C1_PublishStep ==
    /\ published' <= published + 1
    /\ Len(ui_q') <= Len(ui_q) + 1
    /\ published' = published + 1 =>
          /\ ui_q' = Append(ui_q, Last(ui_q'))
          /\ \/ /\ FetchReturnStep
                /\ failed' = failed
                /\ Last(ui_q').type = "Feed"
             \/ /\ TakeStep
                /\ Head(data_q).type = "Episode"
                /\ IsSome(Head(data_q).item)
                /\ Last(ui_q').type = "Episode"
    /\ Len(ui_q') > Len(ui_q) => published' = published + 1

\* C1: for every Request the worker takes it publishes at most one Response,
\* and only on success; published Responses never outnumber consumed Requests.
C1_AtMostOneResponsePerRequest ==
    /\ [](published <= consumed /\ C1_Accounting)
    /\ [][C1_PublishStep]_vars

\* Three Requests consumed (Feed, Episode(None), Episode(Some)), two answered.
C1_Witness == consumed = 3 /\ published = 2 /\ failed = 0

----------------------------------------------------------------------------
(* C2 *)

\* C2: when get_feed fails the worker publishes nothing, puts nothing back on
\* the inbound queue, and is idle again, so that its next cycle takes the next
\* Request.
C2_FailedFetchDropped ==
    /\ [][failed' # failed =>
            /\ FetchReturnStep
            /\ failed' = failed + 1
            /\ ui_q' = ui_q
            /\ published' = published
            /\ data_q' = data_q
            /\ sent' = sent
            /\ consumed' = consumed]_vars
    /\ [](failed > 0 /\ w_pc = "idle" /\ data_q # <<>> /\ fg_pc # "exited"
            => ENABLED (WorkerTakeFeed \/ WorkerEpisode))

\* After a failed fetch the worker has taken a further Request.
C2_Witness == failed = 1 /\ consumed = 2 /\ published = 0 /\ last_op = "w_episode_none"

----------------------------------------------------------------------------
(* C3 *)

\* C3: a cycle that takes Episode(Some(ep)) queues exactly EpisodeLoaded(ep) and
\* starts no fetch; a cycle that takes Episode(None) queues nothing.  (A send
\* after main has dropped the receiver returns Err and queues nothing.)
C3_EpisodeEchoed ==
    [][TakeStep /\ Head(data_q).type = "Episode" =>
          /\ w_pc = "idle" /\ w_pc' = "idle"
          /\ failed' = failed
          /\ IF IsSome(Head(data_q).item) /\ ReceiverAlive
             THEN /\ ui_q' = Append(ui_q, EpisodeResponse(Unwrap(Head(data_q).item)))
                  /\ published' = published + 1
             ELSE /\ ui_q' = ui_q
                  /\ published' = published]_vars

\* Episode 2, the first of the list <<2, 1>>, has come back as the only Response.
C3_Witness ==
    /\ last_op = "w_episode_some"
    /\ ui_q = <<EpisodeResponse(2)>>
    /\ channel = Some([items |-> Descending(2)])

----------------------------------------------------------------------------
(* C4 *)

\* C4: a submit in Input whose buffer parses to FetchPodcastFeed(url), url a
\* valid absolute URL, enqueues exactly one Request, Feed of that URL, clears
\* the buffer and moves to ListEpisodes.
C4_SubmitFetchCommand ==
    [][/\ EnterStep
       /\ display_action = "Input"
       /\ parse(input).op = "FetchPodcastFeed"
       /\ UrlParse(parse(input).url).ok
       =>
       /\ data_q' = Append(data_q, FeedRequest(UrlParse(parse(input).url).url))
       /\ sent' = sent + 1
       /\ input' = <<>>
       /\ display_action' = "ListEpisodes"]_vars

----------------------------------------------------------------------------
(* C5 *)

\* C5: a submit in Input whose buffer parses to NoOp, or to FetchPodcastFeed of
\* a text that is no valid absolute URL, enqueues nothing and leaves the whole
\* App unchanged, the input buffer included.
C5_InvalidSubmitChangesNothing ==
    [][/\ EnterStep
       /\ display_action = "Input"
       /\ parse(input) = NoOp \/ ~UrlParse(parse(input).url).ok
       =>
       /\ data_q' = data_q
       /\ sent' = sent
       /\ UNCHANGED <<input, channel, item, selected, display_action>>]_vars

----------------------------------------------------------------------------
(* C6 *)

\* C6: a submit in ListEpisodes with a channel of N >= 1 episodes and the cursor
\* at i < N enqueues exactly Episode(Some(e)), e the channel's episode at index
\* i, and moves to DescribeEpisode.
C6_SubmitSelectedEpisode ==
    [][/\ EnterStep
       /\ display_action = "ListEpisodes"
       /\ IsSome(channel) /\ IsSome(selected)
       /\ Len(Unwrap(channel).items) >= 1
       /\ 0 <= Unwrap(selected)
       /\ Unwrap(selected) < Len(Unwrap(channel).items)
       =>
       /\ data_q' =
              Append(data_q,
                     EpisodeRequest(Some(Unwrap(channel).items[Unwrap(selected) + 1])))
       /\ sent' = sent + 1
       /\ display_action' = "DescribeEpisode"]_vars

\* Index 1 of the list <<2, 1>> was submitted: Episode(Some(1)) is queued.
C6_Witness ==
    /\ last_op = "key_enter"
    /\ display_action = "DescribeEpisode"
    /\ channel = Some([items |-> Descending(2)])
    /\ selected = Some(1)
    /\ data_q # <<>> /\ Last(data_q) = EpisodeRequest(Some(1))

----------------------------------------------------------------------------
(* C7 *)

\* C7: a submit in ListEpisodes with no channel and no cursor enqueues
\* Episode(None) and stays in ListEpisodes; the worker's cycle that takes an
\* Episode(None) publishes nothing.
C7_SubmitWithoutSelection ==
    /\ [][/\ EnterStep
          /\ display_action = "ListEpisodes"
          /\ channel = None /\ selected = None
          =>
          /\ data_q' = Append(data_q, EpisodeRequest(None))
          /\ display_action' = "ListEpisodes"]_vars
    /\ [][TakeStep /\ Head(data_q) = EpisodeRequest(None) =>
             ui_q' = ui_q /\ published' = published]_vars

\* The worker has taken the Episode(None) of such a submit and nothing is
\* published.
C7_Witness ==
    /\ last_op = "w_episode_none"
    /\ display_action = "ListEpisodes"
    /\ channel = None /\ selected = None
    /\ consumed = 2 /\ published = 0 /\ ui_q = <<>>

----------------------------------------------------------------------------
(* C8 *)

C8_Step ==
    /\ display_action' # display_action =>
          \/ display_action = "Input" /\ display_action' = "ListEpisodes"
          \/ display_action = "ListEpisodes" /\ display_action' = "DescribeEpisode"
    /\ EnterStep /\ display_action = "DescribeEpisode" =>
          /\ data_q' = data_q
          /\ sent' = sent
          /\ display_action' = "DescribeEpisode"

\* C8: DisplayAction starts at Input and only ever steps Input -> ListEpisodes
\* and ListEpisodes -> DescribeEpisode; a submit in DescribeEpisode enqueues
\* nothing and stays there.
C8_DisplayActionOnlyAdvances ==
    /\ display_action = "Input"
    /\ [][C8_Step]_vars

\* A submit in DescribeEpisode has just been handled: a submit in ListEpisodes
\* would have left its Request on the queue.
C8_Witness ==
    /\ last_op = "key_enter"
    /\ display_action = "DescribeEpisode"
    /\ data_q = <<>>
    /\ sent = consumed

----------------------------------------------------------------------------
(* C9 *)

\* C9: ui takes at most one Response per cycle; Feed(c) sets the channel to c,
\* Episode(e) sets the episode to e, and DisplayAction, the input buffer, the
\* cursor and the other field stay as they were.
C9_ResponseSetsOneField ==
    [][UiStep =>
          /\ UNCHANGED <<input, selected, display_action, data_q>>
          /\ IF ui_q = <<>>
             THEN UNCHANGED <<ui_q, channel, item>>
             ELSE /\ ui_q' = Tail(ui_q)
                  /\ IF Head(ui_q).type = "Feed"
                     THEN channel' = Some(Head(ui_q).channel) /\ item' = item
                     ELSE item' = Some(Head(ui_q).item) /\ channel' = channel]_vars

\* Episode(2) was applied: the channel it came from, the typed text and
\* DisplayAction are as before.
C9_Witness ==
    /\ last_op = "ui_episode"
    /\ item = Some(2)
    /\ channel = Some([items |-> Descending(2)])
    /\ input = <<"h">>
    /\ display_action = "DescribeEpisode"

----------------------------------------------------------------------------
(* C10 *)

\* C10: while the foreground loop runs, a Response on the outbound queue is
\* eventually taken off it and applied, whether or not a key is ever pressed
\* again.
C10_ResponseEventuallyApplied ==
    (ui_q # <<>> /\ result = "running") ~> (ui_q = <<>> \/ result # "running")

----------------------------------------------------------------------------
(* C11 *)

\* A cursor key is handled and returns.
DownStep == fg_pc = "read" /\ last_op' = "key_down"
UpStep == fg_pc = "read" /\ last_op' = "key_up"

\* A channel with at least one episode is loaded and the cursor is on one.
CursorOnEpisode ==
    /\ IsSome(channel) /\ IsSome(selected)
    /\ Len(Unwrap(channel).items) >= 1
    /\ 0 <= Unwrap(selected)
    /\ Unwrap(selected) < Len(Unwrap(channel).items)

\* C11: with N >= 1 episodes and the cursor at i < N, cursor-down moves to
\* (i + 1) mod N and cursor-up to (i - 1) mod N; up undoes down and down undoes
\* up.
C11_CursorWraps ==
    /\ [][CursorOnEpisode /\ DownStep =>
            selected' = Some((Unwrap(selected) + 1) % Len(Unwrap(channel).items))]_vars
    /\ [][CursorOnEpisode /\ UpStep =>
            selected' = Some((Unwrap(selected) + Len(Unwrap(channel).items) - 1)
                                % Len(Unwrap(channel).items))]_vars
    /\ [](CursorOnEpisode =>
            /\ PreviousIndex(channel, Some(NextIndex(channel, selected)))
                   = Unwrap(selected)
            /\ NextIndex(channel, Some(PreviousIndex(channel, selected)))
                   = Unwrap(selected))

\* Cursor-up from index 0 of the longest list has just wrapped to its last
\* index: no other index leads there by cursor-up.
C11_Witness ==
    /\ last_op = "key_up"
    /\ channel = Some([items |-> Ascending(MaxEpisodes)])
    /\ selected = Some(MaxEpisodes - 1)

----------------------------------------------------------------------------
(* C12 *)

\* C12: in Input with the buffer "/load <url>", a submit enqueues the Feed
\* request of exactly <url> and shows ListEpisodes; and after that submit a
\* published Feed response of channel c leads to the App holding c in
\* ListEpisodes.
C12_LoadLineEndToEnd ==
    /\ [][EnterStep /\ display_action = "Input" /\ input = LoadLine =>
            /\ data_q' = Append(data_q, FeedRequest(UrlParse(UrlLine).url))
            /\ display_action' = "ListEpisodes"]_vars
    /\ \A c \in Channels :
          (msg = LoadLine /\ ui_q # <<>> /\ Head(ui_q) = FeedResponse(c))
              ~> (channel = Some(c) /\ display_action = "ListEpisodes")

----------------------------------------------------------------------------
(* C13 *)

\* The first piece of l, cut at single spaces, is exactly "/load".
FirstTokenIsLoad(l) ==
    /\ Len(l) >= Len(LoadOp)
    /\ SubSeq(l, 1, Len(LoadOp)) = LoadOp
    /\ (Len(l) = Len(LoadOp) \/ l[Len(LoadOp) + 1] = " ")

\* The characters of s that are not spaces, in order.
WithoutSpaces(s) == SelectSeq(s, LAMBDA c : c # " ")

\* C13: for a line whose first single-space-separated token is "/load", parse
\* returns FetchPodcastFeed of the remaining tokens concatenated without a
\* separator (the empty string when there are none).
C13_LoadParsesToFetch ==
    IsSome(command) /\ FirstTokenIsLoad(line) =>
        Unwrap(command)
            = FetchPodcastFeed(WithoutSpaces(SubSeq(line, Len(LoadOp) + 1, Len(line))))

\* A "/load" line of two further tokens has been parsed.
C13_Witness ==
    /\ line = LoadOp \o <<" ", "a", " ">> \o UrlLine
    /\ command = Some(FetchPodcastFeed(<<"a">> \o UrlLine))

----------------------------------------------------------------------------
(* C14 *)

\* C14: parse returns a Command for every line, and NoOp for every line whose
\* first single-space-separated token is not "/load" (the empty line and a line
\* that starts with a space among them).
C14_OtherLinesAreNoOp ==
    /\ command = None => ENABLED ParseLine
    /\ IsSome(command) /\ ~FirstTokenIsLoad(line) => Unwrap(command) = NoOp

\* A line that starts with a space and goes on with "/load <url>" has been
\* parsed to NoOp.
C14_Witness ==
    /\ line = <<" ">> \o LoadLine
    /\ command = Some(NoOp)

----------------------------------------------------------------------------
(* C15 *)

\* A key event has been read and handled (a failed read is no key event).
EventStep == fg_pc = "read" /\ fg_pc' # "read" /\ last_op' # "read_err"

\* C15: in every state where the loop reads a key event, the quit key ends the
\* loop with Ok; every other key event leaves the loop running.
C15_OnlyQuitEndsLoop ==
    /\ [][EventStep /\ last_op' = "key_esc" =>
            fg_pc' = "returned" /\ result' = "Ok"]_vars
    /\ [][EventStep /\ last_op' # "key_esc" =>
            fg_pc' = "draw" /\ result' = "running"]_vars

----------------------------------------------------------------------------
(* C16 *)

\* A submit is handled in ListEpisodes with the list cursor set.
SubmitAtCursor ==
    EnterStep /\ display_action = "ListEpisodes" /\ IsSome(selected)

\* C16 as stated: every submit in ListEpisodes with the cursor set moves to
\* DescribeEpisode and enqueues an Episode request that carries an episode.
C16_SubmitAtCursorAlwaysDescribes ==
    [][SubmitAtCursor =>
          /\ display_action' = "DescribeEpisode"
          /\ Len(data_q') = Len(data_q) + 1
          /\ Last(data_q').type = "Episode"
          /\ IsSome(Last(data_q').item)]_vars

\* C16, amended: a submit in ListEpisodes with the cursor set enqueues one
\* Episode request; with the cursor on an episode of the loaded channel the
\* request carries that episode and DisplayAction becomes DescribeEpisode; with
\* no channel loaded, or an empty one, it carries None and DisplayAction stays
\* ListEpisodes.
C16_SubmitAtCursor ==
    [][SubmitAtCursor =>
          IF CursorOnEpisode
          THEN /\ display_action' = "DescribeEpisode"
               /\ data_q' = Append(data_q,
                      EpisodeRequest(Some(Unwrap(channel).items[Unwrap(selected) + 1])))
          ELSE /\ display_action' = "ListEpisodes"
               /\ data_q' = Append(data_q, EpisodeRequest(None))]_vars

\* The cursor was set with no channel loaded, and the submit sent Episode(None).
C16_Witness ==
    /\ last_op = "key_enter"
    /\ display_action = "ListEpisodes"
    /\ channel = None /\ selected = Some(0)
    /\ data_q # <<>> /\ Last(data_q) = EpisodeRequest(None)

----------------------------------------------------------------------------
(* C17 *)

\* get_feed has returned Err.
FetchErrStep == FetchReturnStep /\ failed' = failed + 1

\* C17 as stated: after a failed fetch nothing is published and DisplayAction
\* is Input, as it was before the submit, with no channel and no episode.
C17_FailedFetchRestoresInput ==
    failed > 0 =>
        /\ published = 0 /\ ui_q = <<>>
        /\ display_action = "Input"
        /\ channel = None /\ item = None

\* C17, amended: a failed fetch publishes nothing and changes nothing of the
\* App; after it no Response is ever published, no channel and no episode is
\* loaded, and DisplayAction is ListEpisodes, as the submit left it.
C17_FailedFetchLeavesListEpisodes ==
    /\ [][FetchErrStep => app' = app /\ ui_q' = ui_q /\ published' = published]_vars
    /\ [](failed > 0 =>
            /\ published = 0 /\ ui_q = <<>>
            /\ display_action = "ListEpisodes"
            /\ channel = None /\ item = None)

\* The fetch has just failed, with the App in ListEpisodes.
C17_Witness ==
    /\ last_op = "w_fetch_err"
    /\ failed = 1 /\ consumed = 1
    /\ display_action = "ListEpisodes"
    /\ input = <<>>

----------------------------------------------------------------------------
(* C18 *)

\* C18: while no channel is loaded the list cursor is unset.
C18_NoChannelNoCursor == channel = None => selected = None

----------------------------------------------------------------------------
(* C19 *)

\* A cursor key is handled: the call of App::next or App::previous.
CursorKeyStep == fg_pc = "read" /\ last_op' \in {"key_up", "key_down", "panic"}

\* C19: with a loaded channel of zero episodes every cursor key returns and
\* leaves the cursor at index 0.
C19_EmptyChannelCursorStaysZero ==
    [][/\ CursorKeyStep
       /\ IsSome(channel) /\ Len(Unwrap(channel).items) = 0
       =>
       /\ result' = "running" /\ fg_pc' = "draw"
       /\ selected' = Some(0)]_vars

----------------------------------------------------------------------------
(* C20 *)

\* q2 is q with one element more at its end.
Appended(q, q2) == Len(q2) = Len(q) + 1 /\ SubSeq(q2, 1, Len(q)) = q

\* C20: the inbound queue changes only by a submit at its end or by the worker
\* taking its head, which the worker does only when no fetch is in progress and
\* once a cycle; the outbound queue changes only by the worker adding the
\* Response of the request it is handling at the end, or by the foreground
\* taking the head.
C20_OneRequestAtATime ==
    /\ [][data_q' # data_q =>
            \/ Appended(data_q, data_q') /\ consumed' = consumed
            \/ /\ data_q' = Tail(data_q) /\ consumed' = consumed + 1
               /\ w_pc = "idle"]_vars
    /\ [][w_pc = "fetching" => consumed' = consumed]_vars
    /\ [][ui_q' # ui_q =>
            \/ /\ Appended(ui_q, ui_q') /\ published' = published + 1
               /\ (TakeStep \/ FetchReturnStep)
            \/ ui_q' = Tail(ui_q) /\ published' = published]_vars

\* A fetch is in progress and two later requests wait in the inbound queue.
C20_Witness ==
    /\ w_pc = "fetching"
    /\ consumed = 1
    /\ Len(data_q) = 2

----------------------------------------------------------------------------
(* C21 *)

\* A step of the data thread: an empty cycle, a take, a fetch's return.
WorkerStep ==
    last_op' \in {"w_empty", "w_take_feed", "w_fetch_ok", "w_fetch_err",
                  "w_episode_some", "w_episode_none"}

\* C21: every step of the data thread leaves the App unchanged, and the App
\* changes only in a step of the foreground loop (its draw or its handling of
\* an event).
C21_WorkerLeavesApp ==
    /\ [][WorkerStep => app' = app]_vars
    /\ [][app' # app => fg_pc \in {"draw", "read"} /\ fg_pc' # fg_pc]_vars

\* The fetch has returned its channel while the user had typed into the buffer
\* and set the cursor: none of the App is touched, the channel is not yet
\* loaded.
C21_Witness ==
    /\ last_op = "w_fetch_ok"
    /\ Len(ui_q) = 1
    /\ input = <<"h">>
    /\ selected = Some(0)
    /\ channel = None

----------------------------------------------------------------------------
(* C22 *)

\* The worker is in a cycle that no foreground step can have ended.
WorkerCanRun == fg_pc # "exited" /\ w_pc = "idle"

\* C22: a send that fails because the receiver is gone changes neither queue's
\* accounting nor the worker's course: the fetch's return leaves the worker
\* idle, the request is counted as taken, and while the process lives the
\* worker's next cycle can run.
C22_SendErrorIgnored ==
    /\ [][w_pc = "fetching" /\ w_pc' # "fetching" => w_pc' = "idle"]_vars
    /\ [][WorkerStep /\ ~ReceiverAlive =>
            /\ ui_q' = ui_q /\ published' = published
            /\ w_pc' \in {"idle", "fetching"}]_vars
    /\ [](w_pc \in {"idle", "fetching"})
    /\ [](WorkerCanRun => ENABLED (WorkerIdle \/ WorkerTakeFeed \/ WorkerEpisode))

\* The receiver was dropped, the fetch returned its channel, the send failed
\* (nothing was published, nothing failed), and the worker went on to take the
\* next request.
C22_Witness ==
    /\ fg_pc = "dropped"
    /\ last_op = "w_episode_none"
    /\ consumed = 2
    /\ published = 0 /\ failed = 0
    /\ ui_q = <<>>

----------------------------------------------------------------------------
(* C23 *)

\* The number of Feed messages in a queue.
Feeds(q) == Cardinality({i \in DOMAIN q : q[i].type = "Feed"})

\* Where a Feed request can be: waiting, being fetched, failed, published and
\* waiting, or applied.
FeedsInSystem ==
    Feeds(data_q) + (IF w_pc = "fetching" THEN 1 ELSE 0) + failed + Feeds(ui_q)
        + (IF IsSome(channel) THEN 1 ELSE 0)

\* C23: a Feed request is enqueued only by a submit in Input, which leaves
\* Input; DisplayAction never returns to Input; so at most one Feed request
\* exists in a run, the channel is set at most once, and after a failed fetch
\* no Feed request is enqueued again.
C23_AtMostOneFeedRequest ==
    /\ [][Appended(data_q, data_q') /\ Last(data_q').type = "Feed" =>
            display_action = "Input" /\ display_action' = "ListEpisodes"]_vars
    /\ [][display_action # "Input" => display_action' # "Input"]_vars
    /\ [][channel' # channel => channel = None]_vars
    /\ [][failed > 0 => Feeds(data_q') = 0]_vars
    /\ [](FeedsInSystem <= 1)

\* The fetch failed, the user typed the URL again and submitted it: the submit
\* was one of ListEpisodes, which sent Episode(None) and kept the buffer.
C23_Witness ==
    /\ failed = 1
    /\ last_op = "key_enter"
    /\ input = UrlLine
    /\ display_action = "ListEpisodes"
    /\ data_q # <<>> /\ Last(data_q) = EpisodeRequest(None)

----------------------------------------------------------------------------
(* C24 *)

\* C24: with a channel of N >= 1 episodes loaded and the cursor set, the cursor
\* index is below N.
C24_CursorInRange ==
    IsSome(channel) /\ Len(Unwrap(channel).items) >= 1 /\ IsSome(selected)
        => 0 <= Unwrap(selected) /\ Unwrap(selected) < Len(Unwrap(channel).items)

\* The Feed response of the longest list has just been applied with the cursor
\* already set: the cursor was moved before the feed arrived.
C24_Witness ==
    /\ last_op = "ui_feed"
    /\ channel = Some([items |-> Descending(MaxEpisodes)])
    /\ selected = Some(0)
    /\ display_action = "ListEpisodes"

----------------------------------------------------------------------------
(* C25 *)

\* C25: a loaded episode means DisplayAction is DescribeEpisode and a loaded
\* channel that contains the episode; an Episode response is applied only in
\* DescribeEpisode.
C25_EpisodeOnlyInDescribe ==
    /\ [](IsSome(item) =>
            /\ display_action = "DescribeEpisode"
            /\ IsSome(channel)
            /\ \E i \in DOMAIN Unwrap(channel).items :
                  Unwrap(channel).items[i] = Unwrap(item))
    /\ [][ui_q # <<>> /\ ui_q' = Tail(ui_q) /\ Head(ui_q).type = "Episode" =>
            display_action = "DescribeEpisode"]_vars

\* The Episode response of the first episode of the longest list was applied.
C25_Witness ==
    /\ last_op = "ui_episode"
    /\ item = Some(1)
    /\ channel = Some([items |-> Ascending(MaxEpisodes)])
    /\ selected = Some(0)
    /\ display_action = "DescribeEpisode"

====
